---- MODULE Spec2Model ----
(***************************************************************************)
(* Chef-Genie: the App component (recipe generation, dish image,           *)
(* favorites, navigation), the RecipeResult view (video generation) and    *)
(* the geminiService calls, as a state machine.  Every await in the        *)
(* source is a point where a user event or another completion may occur;   *)
(* the code between two awaits is one atomic step.                         *)
(***************************************************************************)
EXTENDS Integers, Sequences, FiniteSets, TLC

\* ---------------------------------------------------------------- bounds
MaxGen == 2          \* generations (handleGenerate calls) in one run
MaxFavIds == 3       \* favorites ever created (crypto.randomUUID results)
MaxVideoCalls == 2   \* handleGenerateVideo invocations in one run
MaxPolls == 2        \* done=false reports one video operation may give
MaxRating == 1       \* star values the user picks from (1..MaxRating)

MaxTitles == 2       \* distinct recipes the text endpoint may return
MaxCurrentServings == 3  \* serving count up to which the user presses '+'
MaxQuantityLen == 3  \* characters of an ingredient quantity string
MaxDigit == 2        \* digits 0..MaxDigit occur in quantity strings
MaxScaleServings == 8  \* base and target serving counts given to the scaler
MaxKeysBeforeRender == 2  \* key presses one listener handles before the view is rendered again

Titles == 1..MaxTitles

\* ------------------------------------------------------------ null values
NoId == 0            \* a Recipe without an 'id' key
NoImage == 0         \* null image URL
NoRating == 0        \* rating undefined
NoError == "null"    \* error === null
NoTitle == 0
NoServings == 0      \* servings undefined (old data) or 0: falsy
NoRecipe == [title |-> NoTitle, gen |-> 0, servings |-> NoServings, id |-> NoId, imageUrl |-> NoImage,
             rating |-> NoRating, ingredients |-> 0, instructions |-> 0, macros |-> {}]

VARIABLES
  view,            \* 'home' | 'favorites'
  recipe,          \* Recipe | SavedRecipe | null (NoRecipe)
  recipeImage,     \* 0 = null, g = data URI of the image of generation g
  isImageLoading,
  favorites,       \* SavedRecipe[]
  loading,
  error,
  genPc,           \* position of handleGenerate: "idle" | "text" (awaiting generateRecipe)
  curGen,          \* number of handleGenerate calls so far
  imgCalls,        \* per generation, the generateDishImage promise:
                   \* "none" | "pending" | settled as "image" | "null" | "rejected"
  nextId,          \* next fresh favorite id
  toggles,         \* observer: consecutive add/remove toggles on the displayed recipe
  storage,         \* localStorage entry under LOCAL_STORAGE_KEY (a JSON text)
  getItemCalls,    \* observer: localStorage.getItem calls since the page was loaded
  aistudio,        \* typeof window.aistudio !== 'undefined'
  videoUrl,        \* RecipeResult state: [call, gen], the URL returned to invocation
                   \* call, started for the recipe of generation gen; call = 0 when null
  isGeneratingVideo,
  videoError,      \* RecipeResult state: [msg, call, gen], msg = "null" when null
  vcalls,          \* the handleGenerateVideo invocations started so far
  currentServings, \* RecipeResult state: the serving count shown; NoServings when
                   \* no RecipeResult is mounted
  ingQuantity,     \* formatIngredientText: ing.quantity of the ingredient rendered
  ingBase,         \* its baseServings argument
  ingTarget,       \* its currentServings argument
  scaledQty,       \* its scaledQty; NotScaled before the ingredient is rendered
  isCookMode,      \* RecipeResult state
  activeStep,      \* RecipeResult state: index of the step shown in cook mode
  keyListener,     \* the handleKeyDown subscribed by the keyboard effect: [on, step],
                   \* step the activeStep of the render it closes over; the cook-mode
                   \* overlay on screen is that of the same render
  keysHandled,     \* key presses handled since that render
  isPlayingSlideshow, \* RecipeResult state
  currentSlide,    \* RecipeResult state
  slideTimer,      \* the setTimeout of the slideshow effect: its duration, NoTimer when none
  intervals,       \* the generations whose setInterval timer (loading messages) is active
  loadingMessage,  \* App state: the loading message shown
  lastSettled      \* observer: the invocation whose try block ended in the last step:
                   \* what generateRecipeVideo returned, after how many status checks,
                   \* or the message of the error caught

appVars == <<view, recipe, recipeImage, isImageLoading, favorites, loading, error,
             genPc, curGen, imgCalls, nextId, toggles, storage, getItemCalls>>

envVars == <<aistudio>>

resultVars == <<videoUrl, isGeneratingVideo, videoError, vcalls, lastSettled, currentServings>>

scaleVars == <<ingQuantity, ingBase, ingTarget, scaledQty>>

loadingVars == <<intervals, loadingMessage>>

cookVars == <<isCookMode, activeStep, keyListener, keysHandled>>

slideVars == <<isPlayingSlideshow, currentSlide, slideTimer>>

viewVars == <<cookVars, slideVars>>

vars == <<appVars, envVars, resultVars, scaleVars, loadingVars, viewVars>>

\* ------------------------------------------------------- geminiService.ts

\* servings: { type: Type.NUMBER } of the recipe titled t: of the recipes the
\* text endpoint may return the first has a falsy servings value, recipe t is
\* written for t servings
servingsOf(t) == IF t = 1 THEN NoServings ELSE t

\* the response schema: ingredients and instructions are arrays with no
\* minimum length, macros requires its four NUMBER fields.  A recipe carries
\* the lengths of its two arrays and the set of its numeric macro fields.
MacroFields == {"calories", "protein", "carbs", "fats"}

\* the arrays of the response the model returns for title t: the schema
\* admits an empty ingredients array, which the first title has
ingredientsOf(t) == t - 1
instructionsOf(t) == IF t = 1 THEN 1 ELSE t

TextOutcomes == {"json", "empty", "badjson", "reject"}

\* generateRecipe: resolves with JSON.parse(text) or throws
generateRecipe(outcome, g, t, sv) ==
  IF outcome = "json"
    THEN [ok |-> TRUE,  recipe |-> [title |-> t, gen |-> g, servings |-> sv, id |-> NoId,
                                    imageUrl |-> NoImage, rating |-> NoRating,
                                    ingredients |-> ingredientsOf(t),
                                    instructions |-> instructionsOf(t),
                                    macros |-> MacroFields]]
    ELSE [ok |-> FALSE, recipe |-> NoRecipe]

ImageOutcomes == {"bytes", "empty", "reject"}

generateDishImageRejecting(outcome, g) ==
  IF outcome = "bytes" THEN [rejected |-> FALSE, value |-> g]
  ELSE IF outcome = "empty" THEN [rejected |-> FALSE, value |-> NoImage]
  ELSE [rejected |-> TRUE, value |-> NoImage]

\* generateDishImage: data URI, or null on an empty result and on any error
generateDishImage(outcome, g) ==
  IF outcome = "bytes" THEN [rejected |-> FALSE, value |-> g]
  ELSE [rejected |-> FALSE, value |-> NoImage]

\* ----------------------------------------------------------------- App

Mounted(l, r) == ~l /\ r # NoRecipe     \* App render: RecipeResult is shown

RECURSIVE findIndexFrom(_, _, _)
findIndexFrom(favs, t, i) ==
  IF i > Len(favs) THEN 0
  ELSE IF favs[i].title = t THEN i
  ELSE findIndexFrom(favs, t, i + 1)

\* favorites.findIndex(f => f.title === recipe.title), 1-based, 0 = not found
findIndexByTitle(favs, t) == findIndexFrom(favs, t, 1)

spliceLast(favs, i) == [j \in 1..(Len(favs) - 1) |-> favs[j]]

\* newFavorites.splice(i, 1)
splice(favs, i) == [j \in 1..(Len(favs) - 1) |-> IF j < i THEN favs[j] ELSE favs[j + 1]]

toggleFavoriteById(favs, rec, img, newId) ==
  LET hit == {i \in 1..Len(favs) : rec.id # NoId /\ favs[i].id = rec.id} IN
  IF hit # {}
    THEN splice(favs, CHOOSE i \in hit : TRUE)
    ELSE <<[rec EXCEPT !.id = newId, !.imageUrl = img]>> \o favs

\* handleToggleFavorite: the favorites list it sets
toggleFavorite(favs, rec, img, newId) ==
  LET existingIndex == findIndexByTitle(favs, rec.title) IN
  IF existingIndex >= 1
    THEN splice(favs, existingIndex)
    ELSE <<[rec EXCEPT !.id = newId, !.imageUrl = img]>> \o favs

rateFavoritesAll(favs, id, rating) ==
  [i \in 1..Len(favs) |-> [favs[i] EXCEPT !.rating = rating]]

\* handleRateRecipe: favorites.map(...)
rateFavorites(favs, id, rating) ==
  [i \in 1..Len(favs) |-> IF favs[i].id = id THEN [favs[i] EXCEPT !.rating = rating] ELSE favs[i]]

\* removeFavorite: favorites.filter(f => f.id !== id)
filterOutId(favs, id) == SelectSeq(favs, LAMBDA f : f.id # id)

CountTitle(favs, t) == Cardinality({i \in 1..Len(favs) : favs[i].title = t})

NoToggles == [count |-> 0, base |-> <<>>]

NoVideo == [call |-> 0, gen |-> 0]
NoVideoError == [msg |-> "null", call |-> 0, gen |-> 0]
NoRef == 0
NoSettle == [call |-> 0, gen |-> 0, live |-> FALSE, ret |-> "none", err |-> <<>>, checks |-> 0, falses |-> 0,
             ref |-> NoRef, prompt |-> FALSE]

\* ----------------------------------------- RecipeResult: quantity scaling
\* A string is a sequence of characters.  A number is the exact value n/d of
\* the double; d = 0 stands for NaN (n = 0) and Infinity (n > 0).

DigitChars == <<"0", "1", "2", "3", "4", "5", "6", "7", "8", "9">>

Alphabet == {DigitChars[i + 1] : i \in 0..MaxDigit} \cup {".", "/", "-", " ", "x"}

Quantities == UNION {[1..n -> Alphabet] : n \in 0..MaxQuantityLen}

ServingCounts == 1..MaxScaleServings

\* String.prototype.includes, for a one-piece fragment
includes(msg, fragment) == \E i \in 1..Len(msg) : msg[i] = fragment

NotScaled == <<"not rendered">>

isDigit(c) == \E i \in 1..10 : DigitChars[i] = c

digitValue(c) == (CHOOSE i \in 1..10 : DigitChars[i] = c) - 1

NaN == [n |-> 0, d |-> 0]

isNaN(x) == x.d = 0 /\ x.n = 0

mul(a, b) == [n |-> a.n * b.n, d |-> a.d * b.d]

div(a, b) == [n |-> a.n * b.d, d |-> a.d * b.n]

RECURSIVE Pow10(_)
Pow10(k) == IF k = 0 THEN 1 ELSE 10 * Pow10(k - 1)

\* number of digit characters s starts with
RECURSIVE leadingDigits(_)
leadingDigits(s) ==
  IF s # <<>> /\ isDigit(Head(s)) THEN 1 + leadingDigits(Tail(s)) ELSE 0

\* value of the digit string s[1..k]
RECURSIVE natOfDigits(_, _)
natOfDigits(s, k) == IF k = 0 THEN 0 ELSE natOfDigits(s, k - 1) * 10 + digitValue(s[k])

RECURSIVE trimStart(_)
trimStart(s) == IF s # <<>> /\ Head(s) = " " THEN trimStart(Tail(s)) ELSE s

RECURSIVE trimEnd(_)
trimEnd(s) == IF s # <<>> /\ s[Len(s)] = " " THEN trimEnd(SubSeq(s, 1, Len(s) - 1)) ELSE s

\* p.trim()
trim(s) == trimEnd(trimStart(s))

parseFloatFirstDigit(str) ==
  IF str # <<>> /\ isDigit(Head(str)) THEN [n |-> digitValue(Head(str)), d |-> 1] ELSE NaN

\* parseFloat: leading white space is skipped, then the longest prefix that is
\* a decimal literal (digits, '.', digits; one of the digit runs may be empty)
\* is converted and whatever follows is ignored; NaN when there is no such
\* prefix.  (The alphabet has no sign and no exponent character.)
parseFloat(str) ==
  LET s == trimStart(str)
      k == leadingDigits(s)
      rest == SubSeq(s, k + 1, Len(s))
      frac == IF rest # <<>> /\ Head(rest) = "." THEN Tail(rest) ELSE <<>>
      m == leadingDigits(frac)
  IN IF k = 0 /\ m = 0 THEN NaN
     ELSE [n |-> natOfDigits(s, k) * Pow10(m) + natOfDigits(frac, m), d |-> Pow10(m)]

\* quantity.split(sep)
RECURSIVE split(_, _)
split(s, sep) ==
  IF \E i \in 1..Len(s) : s[i] = sep
    THEN LET i == CHOOSE i \in 1..Len(s) : s[i] = sep /\ \A j \in 1..(i - 1) : s[j] # sep
         IN <<SubSeq(s, 1, i - 1)>> \o split(SubSeq(s, i + 1, Len(s)), sep)
    ELSE <<s>>

\* (n).toString() of a non-negative integer
RECURSIVE toString(_)
toString(n) ==
  IF n < 10 THEN <<DigitChars[n + 1]>> ELSE toString(n \div 10) \o <<DigitChars[(n % 10) + 1]>>

\* a < b on doubles whose exact values are a / scale and b / scale: when the
\* exact values are equal (a decimal threshold, which no double represents), the
\* rounding of the operands decides, so both results are possible
lessThan(a, b) == IF a < b THEN {TRUE} ELSE IF a = b THEN {TRUE, FALSE} ELSE {FALSE}

Abs(x) == IF x < 0 THEN -x ELSE x

toFixed1KeepingZero(num) ==
  LET tenths == (10 * num.n) \div num.d
      rem == (10 * num.n) % num.d
      text(t) == toString(t \div 10) \o <<".", DigitChars[(t % 10) + 1]>>
  IN {text(IF up THEN tenths ELSE tenths + 1) : up \in lessThan(2 * rem, num.d)}

\* num.toFixed(1).replace('.0', '')
toFixed1(num) ==
  LET tenths == (10 * num.n) \div num.d
      rem == (10 * num.n) % num.d
      text(t) == IF t % 10 = 0 THEN toString(t \div 10)
                 ELSE toString(t \div 10) \o <<".", DigitChars[(t % 10) + 1]>>
  IN {text(IF up THEN tenths ELSE tenths + 1) : up \in lessThan(2 * rem, num.d)}

\* the common fractions formatNumber tests for, in its order
\* (the one-character vulgar fraction glyphs are written "<1/4>", ...)
Glyphs == << [at |-> 25, glyph |-> "<1/4>"], [at |-> 33, glyph |-> "<1/3>"], [at |-> 50, glyph |-> "<1/2>"],
             [at |-> 66, glyph |-> "<2/3>"], [at |-> 75, glyph |-> "<3/4>"] >>

formatNumberNoGlyph(num) ==
  IF num.d = 0 THEN {<<IF num.n = 0 THEN "NaN" ELSE "Infinity">>}
  ELSE toFixed1(num)

\* the 'common fractions' tests of formatNumber from the k-th on, then toFixed
RECURSIVE commonFraction(_, _)
commonFraction(num, k) ==
  LET whole == num.n \div num.d
      rem == num.n % num.d                   \* decimal = rem / num.d
  IN IF k > Len(Glyphs) THEN toFixed1(num)
     ELSE LET near == lessThan(Abs(100 * rem - Glyphs[k].at * num.d), 5 * num.d) IN
          (IF TRUE \in near
             THEN {(IF whole > 0 THEN toString(whole) \o <<" ">> ELSE <<>>) \o <<Glyphs[k].glyph>>}
             ELSE {})
          \cup (IF FALSE \in near THEN commonFraction(num, k + 1) ELSE {})

\* formatNumber: the strings it may return for num (one, except at a threshold)
formatNumber(num) ==
  IF num.d = 0 THEN {<<IF num.n = 0 THEN "NaN" ELSE "Infinity">>}
  ELSE LET whole == num.n \div num.d
           rem == num.n % num.d
           integer == lessThan(100 * rem, num.d)      \* decimal < 0.01
       IN (IF TRUE \in integer THEN {toString(whole)} ELSE {})
          \cup (IF FALSE \in integer THEN commonFraction(num, 1) ELSE {})

scaleRangeFirstOnly(parts, ratio) ==
  {a \o <<"-">> \o a : a \in formatNumber(mul(parts[1], ratio))}

\* `${formatNumber(parts[0] * ratio)}-${formatNumber(parts[1] * ratio)}`
scaleRange(parts, ratio) ==
  {a \o <<"-">> \o b : a \in formatNumber(mul(parts[1], ratio)),
                       b \in formatNumber(mul(parts[2], ratio))}

fractionScalableIgnoringZero(num, den) == ~isNaN(num) /\ ~isNaN(den)

\* !isNaN(num) && !isNaN(den) && den !== 0
fractionScalable(num, den) == ~isNaN(num) /\ ~isNaN(den) /\ den.n # 0

\* the try block of getScaledQuantity: range, fraction, single number; none of
\* the string operations in it throws
tryScale(quantity, ratio) ==
  IF includes(quantity, "-")
    THEN LET pieces == split(quantity, "-")
             parts == [i \in 1..Len(pieces) |-> parseFloat(trim(pieces[i]))]
         IN IF \A i \in 1..Len(parts) : ~isNaN(parts[i])
              THEN scaleRange(parts, ratio)
              ELSE {quantity}
  ELSE IF includes(quantity, "/")
    THEN LET pieces == split(quantity, "/")
             num == parseFloat(trim(pieces[1]))
             den == parseFloat(trim(pieces[2]))
         IN IF fractionScalable(num, den)
              THEN formatNumber(mul(div(num, den), ratio))
              ELSE {quantity}
  ELSE LET parsed == parseFloat(quantity)
       IN IF ~isNaN(parsed) THEN formatNumber(mul(parsed, ratio)) ELSE {quantity}

getScaledQuantityAlwaysParsing(quantity, base, target) ==
  tryScale(quantity, [n |-> target, d |-> base])

\* getScaledQuantity: the strings it may return
getScaledQuantity(quantity, base, target) ==
  IF quantity = <<>> THEN {<<>>}
  ELSE IF base = target THEN {quantity}
  ELSE tryScale(quantity, [n |-> target, d |-> base])

\* recipe.servings || 4
baseServings(r) == IF r.servings = NoServings THEN 4 ELSE r.servings

NoListener == [on |-> FALSE, step |-> 0]

NoTimer == 0

\* the cook-mode and slideshow state of a fresh instance, which is also what the
\* effect on [recipe.servings, recipe.title] sets; the cleanups of the keyboard
\* and slideshow effects remove the listener and the timer
ResetViewState ==
  /\ isCookMode' = FALSE
  /\ activeStep' = 0
  /\ keyListener' = NoListener
  /\ keysHandled' = 0
  /\ isPlayingSlideshow' = FALSE
  /\ currentSlide' = 0
  /\ slideTimer' = NoTimer

RenderRecipeResultKeptMounted ==
  LET was == Mounted(loading, recipe)
      is  == Mounted(loading', recipe')
  IN IF was = is /\ recipe'.title = recipe.title
       THEN /\ lastSettled' = NoSettle
            /\ UNCHANGED <<videoUrl, isGeneratingVideo, videoError, vcalls, currentServings>>
            /\ UNCHANGED viewVars
       ELSE /\ ResetViewState
            /\ videoUrl' = NoVideo
            /\ videoError' = NoVideoError
            /\ lastSettled' = NoSettle
            /\ currentServings' = IF is THEN baseServings(recipe') ELSE NoServings
            /\ UNCHANGED <<isGeneratingVideo, vcalls>>

\* What an App state change does to the RecipeResult instance: it is mounted
\* with fresh state when a recipe starts being shown, its state is dropped when
\* the recipe stops being shown (state updates of its pending invocations are
\* no-ops from then on), and the effect on [recipe.servings, recipe.title]
\* runs when the shown recipe changes under a mounted instance.
RenderRecipeResult ==
  LET was == Mounted(loading, recipe)
      is  == Mounted(loading', recipe')
  IN IF was /\ is /\ recipe'.title = recipe.title /\ recipe'.servings = recipe.servings
       THEN /\ lastSettled' = NoSettle
            /\ UNCHANGED <<videoUrl, isGeneratingVideo, videoError, vcalls, currentServings>>
            /\ UNCHANGED viewVars
     ELSE IF was /\ is
       THEN /\ ResetViewState
            /\ videoUrl' = NoVideo
            /\ videoError' = NoVideoError
            /\ currentServings' = baseServings(recipe')
            /\ lastSettled' = NoSettle
            /\ UNCHANGED <<isGeneratingVideo, vcalls>>
     ELSE /\ ResetViewState
          /\ videoUrl' = NoVideo
          /\ videoError' = NoVideoError
          /\ isGeneratingVideo' = FALSE
          /\ currentServings' = IF is THEN baseServings(recipe') ELSE NoServings
          /\ vcalls' = [k \in 1..Len(vcalls) |-> [vcalls[k] EXCEPT !.live = FALSE]]
          /\ lastSettled' = NoSettle

\* JSON.stringify of one SavedRecipe: its keys in order, a key whose value is
\* undefined (rating never set) being left out
stringifyEntry(f) ==
  << <<"title", f.title>>, <<"gen", f.gen>>, <<"servings", f.servings>>, <<"id", f.id>>,
     <<"imageUrl", f.imageUrl>>, <<"ingredients", f.ingredients>>,
     <<"instructions", f.instructions>>, <<"macros", f.macros>> >>
    \o (IF f.rating = NoRating THEN <<>> ELSE << <<"rating", f.rating>> >>)

\* JSON.stringify(favorites)
JSONstringify(favs) == [i \in 1..Len(favs) |-> stringifyEntry(favs[i])]

\* the value of key in a parsed object, undefined (dflt) when the key is absent
getKey(e, key, dflt) ==
  IF \E i \in 1..Len(e) : e[i][1] = key
    THEN e[CHOOSE i \in 1..Len(e) : e[i][1] = key][2]
    ELSE dflt

parseEntry(e) ==
  [title |-> getKey(e, "title", NoTitle), gen |-> getKey(e, "gen", 0),
   servings |-> getKey(e, "servings", NoServings), id |-> getKey(e, "id", NoId),
   imageUrl |-> getKey(e, "imageUrl", NoImage), rating |-> getKey(e, "rating", NoRating),
   ingredients |-> getKey(e, "ingredients", 0), instructions |-> getKey(e, "instructions", 0),
   macros |-> getKey(e, "macros", {})]

\* JSON.parse(saved)
JSONparse(text) == [i \in 1..Len(text) |-> parseEntry(text[i])]

PersistenceEffectOnGrowthOnly ==
  storage' = IF Len(favorites') > Len(favorites) THEN JSONstringify(favorites') ELSE storage

\* useEffect(() => localStorage.setItem(KEY, JSON.stringify(favorites)), [favorites]):
\* runs after every render in which favorites has changed
PersistenceEffect ==
  storage' = IF favorites' # favorites THEN JSONstringify(favorites') ELSE storage

LOADING_MESSAGES ==
  << "Analyzing your ingredients...", "Consulting with top chefs...",
     "Preheating the digital oven...", "Measuring spices...", "Plating your masterpiece..." >>

\* LOADING_MESSAGES.indexOf(prev), counted from 0; -1 when absent
indexOf(list, x) ==
  IF \E i \in 1..Len(list) : list[i] = x
    THEN (CHOOSE i \in 1..Len(list) : list[i] = x /\ \A j \in 1..(i - 1) : list[j] # x) - 1
    ELSE -1

\* the updater of the interval callback
nextLoadingMessage(prev) ==
  LOADING_MESSAGES[((indexOf(LOADING_MESSAGES, prev) + 1) % Len(LOADING_MESSAGES)) + 1]

\* setInterval(..., 2000): the timer of generation g becomes active
setInterval(timers, g) == timers \cup {g}

clearIntervalLeavingTimer(timers, g) == timers

\* clearInterval(interval)
clearInterval(timers, g) == timers \ {g}

InitView ==
  /\ view = "home"
  /\ recipe = NoRecipe
  /\ recipeImage = NoImage
  /\ isImageLoading = FALSE
  /\ favorites = <<>>
  /\ loading = FALSE
  /\ error = NoError
  /\ genPc = "idle"
  /\ curGen = 0
  /\ imgCalls = [g \in 1..MaxGen |-> "none"]
  /\ nextId = 1
  /\ toggles = NoToggles
  /\ storage = JSONstringify(favorites)
  /\ getItemCalls = 1
  /\ aistudio \in BOOLEAN
  /\ videoUrl = NoVideo
  /\ isGeneratingVideo = FALSE
  /\ videoError = NoVideoError
  /\ vcalls = <<>>
  /\ lastSettled = NoSettle
  /\ currentServings = NoServings
  /\ intervals = {}
  /\ loadingMessage = LOADING_MESSAGES[1]
  /\ isCookMode = FALSE
  /\ activeStep = 0
  /\ keyListener = NoListener
  /\ keysHandled = 0
  /\ isPlayingSlideshow = FALSE
  /\ currentSlide = 0
  /\ slideTimer = NoTimer

Init ==
  /\ InitView
  /\ ingQuantity = <<>>
  /\ ingBase = 1
  /\ ingTarget = 1
  /\ scaledQty = NotScaled

\* the arguments formatIngredientText may be called with
InitScale ==
  /\ InitView
  /\ ~aistudio
  /\ ingQuantity \in Quantities
  /\ ingBase \in ServingCounts
  /\ ingTarget \in ServingCounts
  /\ scaledQty = NotScaled

\* handleGenerate up to its first await; reachable from RecipeForm only
HandleGenerate ==
  /\ ~loading /\ recipe = NoRecipe /\ view = "home"
  /\ genPc = "idle"
  /\ curGen < MaxGen
  /\ curGen' = curGen + 1
  /\ loading' = TRUE
  /\ error' = NoError
  /\ recipe' = NoRecipe
  /\ recipeImage' = NoImage
  /\ isImageLoading' = TRUE
  /\ view' = "home"
  /\ genPc' = "text"
  /\ intervals' = setInterval(intervals, curGen')
  /\ toggles' = NoToggles
  /\ UNCHANGED <<favorites, imgCalls, nextId, loadingMessage>>
  /\ PersistenceEffect
  /\ UNCHANGED getItemCalls
  /\ RenderRecipeResult
  /\ UNCHANGED <<envVars, scaleVars>>

\* the rest of handleGenerate once generateRecipe settles
GenerateRecipeSettles ==
  /\ genPc = "text"
  /\ \E outcome \in TextOutcomes, t \in Titles :
       LET r == generateRecipe(outcome, curGen, t, servingsOf(t)) IN
       IF r.ok
         THEN /\ recipe' = r.recipe
              /\ imgCalls' = [imgCalls EXCEPT ![curGen] = "pending"]
              /\ UNCHANGED <<error, isImageLoading>>
         ELSE /\ error' = "Oops! The kitchen is a bit chaotic right now."
              /\ isImageLoading' = FALSE
              /\ UNCHANGED <<recipe, imgCalls>>
  /\ intervals' = clearInterval(intervals, curGen)
  /\ loading' = FALSE
  /\ genPc' = "idle"
  /\ toggles' = NoToggles
  /\ UNCHANGED <<view, recipeImage, favorites, curGen, nextId, loadingMessage>>
  /\ PersistenceEffect
  /\ UNCHANGED getItemCalls
  /\ RenderRecipeResult
  /\ UNCHANGED <<envVars, scaleVars>>

\* an active loading-message interval fires (every 2 s)
LoadingMessageTick ==
  /\ intervals # {}
  /\ loadingMessage' = nextLoadingMessage(loadingMessage)
  /\ UNCHANGED <<appVars, envVars, viewVars, resultVars, scaleVars, intervals>>

\* .then(img => setRecipeImage(img)).catch(...).finally(() => setIsImageLoading(false))
DishImageSettles ==
  \E g \in 1..MaxGen, outcome \in ImageOutcomes :
    /\ imgCalls[g] = "pending"
    /\ LET r == generateDishImage(outcome, g) IN
         /\ recipeImage' = IF r.rejected THEN recipeImage ELSE r.value
         /\ imgCalls' = [imgCalls EXCEPT ![g] =
                           IF r.rejected THEN "rejected"
                           ELSE IF r.value = NoImage THEN "null" ELSE "image"]
    /\ isImageLoading' = FALSE
    /\ UNCHANGED <<view, recipe, favorites, loading, error, genPc, curGen, nextId, toggles>>
    /\ PersistenceEffect
    /\ UNCHANGED getItemCalls
    /\ lastSettled' = NoSettle
    /\ UNCHANGED <<envVars, viewVars, loadingVars, scaleVars, videoUrl, isGeneratingVideo, videoError, vcalls, currentServings>>

Reset ==
  /\ Mounted(loading, recipe)
  /\ recipe' = NoRecipe
  /\ recipeImage' = NoImage
  /\ error' = NoError
  /\ isImageLoading' = FALSE
  /\ toggles' = NoToggles
  /\ UNCHANGED <<view, favorites, loading, genPc, curGen, imgCalls, nextId>>
  /\ PersistenceEffect
  /\ UNCHANGED getItemCalls
  /\ RenderRecipeResult
  /\ UNCHANGED <<envVars, loadingVars, scaleVars>>

HandleToggleFavorite ==
  /\ Mounted(loading, recipe)
  /\ LET adds == findIndexByTitle(favorites, recipe.title) = 0 IN
       /\ adds => nextId <= MaxFavIds
       /\ favorites' = toggleFavorite(favorites, recipe, recipeImage, nextId)
       /\ nextId' = IF adds THEN nextId + 1 ELSE nextId
       /\ toggles' = IF adds THEN [count |-> 1, base |-> favorites]
                     ELSE IF toggles.count = 1 THEN [toggles EXCEPT !.count = 2]
                     ELSE NoToggles
  /\ UNCHANGED <<view, recipe, recipeImage, isImageLoading, loading, error, genPc, curGen,
                 imgCalls>>
  /\ PersistenceEffect
  /\ UNCHANGED getItemCalls
  /\ lastSettled' = NoSettle
  /\ UNCHANGED <<envVars, viewVars, loadingVars, scaleVars, videoUrl, isGeneratingVideo, videoError, vcalls, currentServings>>

FavoritesListShown == ~loading /\ recipe = NoRecipe /\ view = "favorites"

HandleRateRecipe ==
  /\ FavoritesListShown
  /\ \E i \in 1..Len(favorites), rating \in 1..MaxRating :
       /\ favorites' = rateFavorites(favorites, favorites[i].id, rating)
       /\ recipe' = IF recipe # NoRecipe /\ recipe.id # NoId /\ recipe.id = favorites[i].id
                      THEN [recipe EXCEPT !.rating = rating] ELSE recipe
  /\ toggles' = NoToggles
  /\ UNCHANGED <<view, recipeImage, isImageLoading, loading, error, genPc, curGen,
                 imgCalls, nextId>>
  /\ PersistenceEffect
  /\ UNCHANGED getItemCalls
  /\ RenderRecipeResult
  /\ UNCHANGED <<envVars, loadingVars, scaleVars>>

NavigateToHome ==
  /\ view' = "home"
  /\ recipe' = NoRecipe
  /\ isImageLoading' = FALSE
  /\ toggles' = NoToggles
  /\ UNCHANGED <<recipeImage, favorites, loading, error, genPc, curGen, imgCalls, nextId>>
  /\ PersistenceEffect
  /\ UNCHANGED getItemCalls
  /\ RenderRecipeResult
  /\ UNCHANGED <<envVars, loadingVars, scaleVars>>

NavigateToFavorites ==
  /\ view' = "favorites"
  /\ recipe' = NoRecipe
  /\ isImageLoading' = FALSE
  /\ toggles' = NoToggles
  /\ UNCHANGED <<recipeImage, favorites, loading, error, genPc, curGen, imgCalls, nextId>>
  /\ PersistenceEffect
  /\ UNCHANGED getItemCalls
  /\ RenderRecipeResult
  /\ UNCHANGED <<envVars, loadingVars, scaleVars>>

SelectFavorite ==
  /\ FavoritesListShown
  /\ \E i \in 1..Len(favorites) :
       /\ recipe' = favorites[i]
       /\ recipeImage' = favorites[i].imageUrl
  /\ isImageLoading' = FALSE
  /\ toggles' = NoToggles
  /\ UNCHANGED <<view, favorites, loading, error, genPc, curGen, imgCalls, nextId>>
  /\ PersistenceEffect
  /\ UNCHANGED getItemCalls
  /\ RenderRecipeResult
  /\ UNCHANGED <<envVars, loadingVars, scaleVars>>

RemoveFavorite ==
  /\ FavoritesListShown
  /\ \E i \in 1..Len(favorites) :
       /\ favorites' = filterOutId(favorites, favorites[i].id)
       /\ recipe' = IF recipe # NoRecipe /\ recipe.id = favorites[i].id THEN NoRecipe ELSE recipe
  /\ toggles' = NoToggles
  /\ UNCHANGED <<view, recipeImage, isImageLoading, loading, error, genPc, curGen,
                 imgCalls, nextId>>
  /\ PersistenceEffect
  /\ UNCHANGED getItemCalls
  /\ RenderRecipeResult
  /\ UNCHANGED <<envVars, loadingVars, scaleVars>>

\* The page is reloaded: the App is constructed anew, its favorites read from
\* the stored entry; whatever was pending belongs to the page that is gone.
Reload ==
  /\ view' = "home"
  /\ recipe' = NoRecipe
  /\ recipeImage' = NoImage
  /\ isImageLoading' = FALSE
  /\ favorites' = JSONparse(storage)
  /\ loading' = FALSE
  /\ error' = NoError
  /\ genPc' = "idle"
  /\ imgCalls' = [g \in 1..MaxGen |-> IF imgCalls[g] = "pending" THEN "none" ELSE imgCalls[g]]
  /\ toggles' = NoToggles
  /\ getItemCalls' = 1
  /\ intervals' = {}
  /\ loadingMessage' = LOADING_MESSAGES[1]
  /\ UNCHANGED <<curGen, nextId>>
  /\ PersistenceEffect
  /\ RenderRecipeResult
  /\ UNCHANGED <<envVars, scaleVars>>

\* ------------------------------------------- RecipeResult: video generation

NotFound == "Requested entity was not found"

\* err.message as a sequence of fragments; <<>> is an empty or missing message
ErrMessages == { <<>>, <<"other">>, <<NotFound>>, <<"other", NotFound>> }

isAuthorizationFailureExact(msg) == msg = <<NotFound>>

\* err.message && err.message.includes("Requested entity was not found")
isAuthorizationFailure(msg) == Len(msg) > 0 /\ includes(msg, NotFound)

AuthMsg == "Authorization failed. Please select a valid API key."
GenericMsg == "Video generation unavailable right now."
RetryMsg == "Could not generate video. Please try again."

\* a started invocation of handleGenerateVideo: where it is suspended, whether
\* the RecipeResult instance that started it is still mounted, the generation of
\* the recipe it was started for, and the locals of generateRecipeVideo
NewCall(pc) ==
  [pc |-> pc, live |-> TRUE, gen |-> recipe.gen, checks |-> 0, falses |-> 0,
   opDone |-> FALSE, ref |-> NoRef]

\* an invocation that has run to its end; nothing of it is left
Finished(c) ==
  [pc |-> "done", live |-> FALSE, gen |-> 0, checks |-> 0, falses |-> 0, opDone |-> FALSE,
   ref |-> NoRef]

InFlight(c) == c.pc \in {"requesting", "sleeping", "checking"}

pollAgainAlways(done) == TRUE

\* while (!operation.done)
pollAgain(done) == ~done

videoResultAlwaysUrl(ref) == "url"

\* if (!videoUri) return null; return `${videoUri}&key=...`
videoResult(ref) == IF ref = NoRef THEN "null" ELSE "url"

\* handleGenerateVideo up to its first await
HandleGenerateVideo ==
  /\ Mounted(loading, recipe)
  /\ ~isGeneratingVideo
  /\ Len(vcalls) < MaxVideoCalls
  /\ videoError' = NoVideoError
  /\ \E hasSelectedApiKey \in BOOLEAN :      \* what window.aistudio reports at this call
       IF aistudio /\ ~hasSelectedApiKey
         THEN /\ vcalls' = Append(vcalls, NewCall("keydialog"))
              /\ UNCHANGED isGeneratingVideo
         ELSE /\ vcalls' = Append(vcalls, NewCall("requesting"))
              /\ isGeneratingVideo' = TRUE
  /\ lastSettled' = NoSettle
  /\ UNCHANGED <<appVars, envVars, viewVars, loadingVars, scaleVars, currentServings, videoUrl>>

\* the catch and finally blocks of handleGenerateVideo for invocation k,
\* c being its record when the error is thrown
CatchVideoError(k, c, msg) ==
  LET auth == isAuthorizationFailure(msg)
      prompt == auth /\ aistudio
  IN /\ videoError' = IF c.live
                        THEN [msg |-> IF auth THEN AuthMsg ELSE GenericMsg, call |-> k, gen |-> c.gen]
                        ELSE videoError
     /\ isGeneratingVideo' = IF c.live /\ ~prompt THEN FALSE ELSE isGeneratingVideo
     /\ vcalls' = [vcalls EXCEPT ![k] = IF prompt THEN [c EXCEPT !.pc = "reauth"] ELSE Finished(c)]
     /\ lastSettled' = [call |-> k, gen |-> c.gen, live |-> c.live, ret |-> "throw", err |-> msg,
                        checks |-> 0, falses |-> 0, ref |-> NoRef,
                        prompt |-> prompt]
     /\ UNCHANGED videoUrl

\* generateRecipeVideo returns for invocation k: the rest of the try block and finally
ReturnVideo(k, c) ==
  LET res == videoResult(c.ref) IN
  /\ videoUrl' = IF c.live /\ res = "url" THEN [call |-> k, gen |-> c.gen] ELSE videoUrl
  /\ videoError' = IF c.live /\ res = "null" THEN [msg |-> RetryMsg, call |-> k, gen |-> c.gen]
                   ELSE videoError
  /\ isGeneratingVideo' = IF c.live THEN FALSE ELSE isGeneratingVideo
  /\ vcalls' = [vcalls EXCEPT ![k] = Finished(c)]
  /\ lastSettled' = [call |-> k, gen |-> c.gen, live |-> c.live, ret |-> res, err |-> <<>>,
                     checks |-> c.checks, falses |-> c.falses, ref |-> c.ref,
                     prompt |-> FALSE]

\* generateRecipeVideo holds a fetched operation: loop test, then sleep or return
GotOperation(k, c) ==
  IF pollAgain(c.opDone)
    THEN /\ vcalls' = [vcalls EXCEPT ![k] = [c EXCEPT !.pc = "sleeping"]]
         /\ lastSettled' = NoSettle
         /\ UNCHANGED <<videoUrl, videoError, isGeneratingVideo>>
    ELSE ReturnVideo(k, c)

\* await aistudio.openSelectKey() (line 232) settles
KeyDialogSettles ==
  \E k \in 1..Len(vcalls) :
    /\ vcalls[k].pc = "keydialog"
    /\ \/ /\ isGeneratingVideo' = IF vcalls[k].live THEN TRUE ELSE isGeneratingVideo
          /\ vcalls' = [vcalls EXCEPT ![k].pc = "requesting"]
          /\ lastSettled' = NoSettle
          /\ UNCHANGED <<videoUrl, videoError>>
       \/ \E msg \in ErrMessages : CatchVideoError(k, vcalls[k], msg)
    /\ UNCHANGED <<appVars, envVars, viewVars, loadingVars, scaleVars, currentServings>>

\* await aiVideo.models.generateVideos(...) settles
GenerateVideosSettles ==
  \E k \in 1..Len(vcalls) :
    /\ vcalls[k].pc = "requesting"
    /\ \/ \E done \in BOOLEAN, hasUri \in BOOLEAN :
            /\ hasUri => done
            /\ GotOperation(k, [vcalls[k] EXCEPT !.opDone = done,
                                                 !.ref = IF hasUri THEN 1 ELSE NoRef])
       \/ \E msg \in ErrMessages : CatchVideoError(k, vcalls[k], msg)
    /\ UNCHANGED <<appVars, envVars, viewVars, loadingVars, scaleVars, currentServings>>

\* the 5 s timer of the poll loop fires and getVideosOperation is called
PollTimerFires ==
  \E k \in 1..Len(vcalls) :
    /\ vcalls[k].pc = "sleeping"
    /\ vcalls' = [vcalls EXCEPT ![k].pc = "checking", ![k].checks = @ + 1]
    /\ lastSettled' = NoSettle
    /\ UNCHANGED <<appVars, envVars, viewVars, loadingVars, scaleVars, currentServings, videoUrl, videoError, isGeneratingVideo>>

\* await aiVideo.operations.getVideosOperation(...) settles
GetVideosOperationSettles ==
  \E k \in 1..Len(vcalls) :
    /\ vcalls[k].pc = "checking"
    /\ \/ \E done \in BOOLEAN, hasUri \in BOOLEAN :
            /\ hasUri => done
            /\ ~done => vcalls[k].falses < MaxPolls
            /\ GotOperation(k, [vcalls[k] EXCEPT !.opDone = done,
                                                 !.falses = IF done THEN @ ELSE @ + 1,
                                                 !.ref = IF hasUri THEN vcalls[k].checks + 1 ELSE NoRef])
       \/ \E msg \in ErrMessages : CatchVideoError(k, vcalls[k], msg)
    /\ UNCHANGED <<appVars, envVars, viewVars, loadingVars, scaleVars, currentServings>>

ReauthDialogSettlesKeepingFlag ==
  \E k \in 1..Len(vcalls) :
    /\ vcalls[k].pc = "reauth"
    /\ vcalls' = [vcalls EXCEPT ![k] = Finished(vcalls[k])]
    /\ lastSettled' = NoSettle
    /\ UNCHANGED <<appVars, envVars, viewVars, loadingVars, scaleVars, currentServings, videoUrl,
                   videoError, isGeneratingVideo>>

\* await aistudio.openSelectKey() in the catch block settles; then finally
ReauthDialogSettles ==
  \E k \in 1..Len(vcalls) :
    /\ vcalls[k].pc = "reauth"
    /\ isGeneratingVideo' = IF vcalls[k].live THEN FALSE ELSE isGeneratingVideo
    /\ vcalls' = [vcalls EXCEPT ![k] = Finished(vcalls[k])]
    /\ lastSettled' = NoSettle
    /\ UNCHANGED <<appVars, envVars, viewVars, loadingVars, scaleVars, currentServings, videoUrl, videoError>>

updateServingsUnclamped(current, delta) == current + delta

\* updateServings: Math.max(1, currentServings + delta)
updateServings(current, delta) ==
  IF current + delta >= 1 THEN current + delta ELSE 1

\* isStructuredIngredients(recipe.ingredients) && recipe.servings; the recipes
\* of the text endpoint have structured ingredients
canScale(r) == r.servings # NoServings

UpdateServingsWritingRecipe ==
  /\ Mounted(loading, recipe) /\ canScale(recipe)
  /\ \E delta \in {-1, 1} :
       /\ delta = -1 => currentServings > 1
       /\ delta = 1 => currentServings < MaxCurrentServings
       /\ currentServings' = updateServings(currentServings, delta)
  /\ recipe' = [recipe EXCEPT !.servings = currentServings']
  /\ toggles' = NoToggles
  /\ lastSettled' = NoSettle
  /\ UNCHANGED <<view, recipeImage, isImageLoading, favorites, loading, error, genPc, curGen,
                 imgCalls, nextId, storage, getItemCalls>>
  /\ UNCHANGED <<envVars, viewVars, loadingVars, scaleVars, videoUrl, isGeneratingVideo, videoError, vcalls>>

\* Serving Control: the '-' button (disabled at 1) and the '+' button
UpdateServings ==
  /\ Mounted(loading, recipe) /\ canScale(recipe)
  /\ \E delta \in {-1, 1} :
       /\ delta = -1 => currentServings > 1
       /\ delta = 1 => currentServings < MaxCurrentServings
       /\ currentServings' = updateServings(currentServings, delta)
  /\ toggles' = NoToggles
  /\ lastSettled' = NoSettle
  /\ UNCHANGED <<view, recipe, recipeImage, isImageLoading, favorites, loading, error, genPc,
                 curGen, imgCalls, nextId, storage, getItemCalls>>
  /\ UNCHANGED <<envVars, viewVars, loadingVars, scaleVars, videoUrl, isGeneratingVideo, videoError, vcalls>>

\* video modal: onClick={() => setVideoUrl(null)}
CloseVideo ==
  /\ Mounted(loading, recipe)
  /\ videoUrl # NoVideo
  /\ videoUrl' = NoVideo
  /\ lastSettled' = NoSettle
  /\ UNCHANGED <<appVars, envVars, viewVars, loadingVars, scaleVars, currentServings, isGeneratingVideo, videoError, vcalls>>

\* error overlay: onClick={() => setVideoError(null)}
DismissVideoError ==
  /\ Mounted(loading, recipe)
  /\ videoError # NoVideoError
  /\ videoError' = NoVideoError
  /\ lastSettled' = NoSettle
  /\ UNCHANGED <<appVars, envVars, viewVars, loadingVars, scaleVars, currentServings, isGeneratingVideo, videoUrl, vcalls>>


\* ------------------------------------------------- RecipeResult: cook mode

\* const totalSteps = recipe.instructions.length
totalSteps(r) == r.instructions

Keys == {"ArrowRight", "ArrowLeft", "Escape"}

\* handleKeyDown: the activeStep it sets, closureStep being the activeStep of the
\* render the handler was created in and prev the state the updater receives
keyDownStep(key, closureStep, prev, len) ==
  IF key = "ArrowRight" /\ closureStep < len - 1 THEN prev + 1
  ELSE IF key = "ArrowLeft" /\ closureStep > 0 THEN prev - 1
  ELSE prev

\* Previous button: setActiveStep(prev => Math.max(0, prev - 1))
previousStep(prev) == IF prev - 1 > 0 THEN prev - 1 ELSE 0

\* Next button: setActiveStep(prev => Math.min(totalSteps - 1, prev + 1))
nextStep(prev, total) == IF prev + 1 < total - 1 THEN prev + 1 ELSE total - 1

\* Cook Mode button: onClick={() => setIsCookMode(true)}
EnterCookMode ==
  /\ Mounted(loading, recipe)
  /\ ~isCookMode /\ ~keyListener.on
  /\ isCookMode' = TRUE
  /\ lastSettled' = NoSettle
  /\ UNCHANGED <<appVars, envVars, loadingVars, scaleVars, slideVars, activeStep, keyListener,
                 keysHandled, videoUrl, isGeneratingVideo, videoError, vcalls, currentServings>>

\* the view is rendered again and the effect on [isCookMode, activeStep,
\* recipe.instructions.length] removes the old listener and adds the new one
KeyboardEffect ==
  /\ Mounted(loading, recipe)
  /\ LET listener == IF isCookMode THEN [on |-> TRUE, step |-> activeStep] ELSE NoListener IN
       /\ keyListener # listener
       /\ keyListener' = listener
  /\ keysHandled' = 0
  /\ lastSettled' = NoSettle
  /\ UNCHANGED <<appVars, envVars, loadingVars, scaleVars, slideVars, isCookMode, activeStep,
                 videoUrl, isGeneratingVideo, videoError, vcalls, currentServings>>

\* a keydown event reaches the subscribed listener
KeyDown ==
  /\ Mounted(loading, recipe)
  /\ keyListener.on
  /\ keysHandled < MaxKeysBeforeRender
  /\ \E key \in Keys :
       /\ activeStep' = keyDownStep(key, keyListener.step, activeStep, recipe.instructions)
       /\ isCookMode' = IF key = "Escape" THEN FALSE ELSE isCookMode
  /\ keysHandled' = keysHandled + 1
  /\ lastSettled' = NoSettle
  /\ UNCHANGED <<appVars, envVars, loadingVars, scaleVars, slideVars, keyListener,
                 videoUrl, isGeneratingVideo, videoError, vcalls, currentServings>>

\* the Next button, rendered when the step shown is not the last one
CookNext ==
  /\ Mounted(loading, recipe)
  /\ keyListener.on /\ keyListener.step < totalSteps(recipe) - 1
  /\ activeStep' = nextStep(activeStep, totalSteps(recipe))
  /\ lastSettled' = NoSettle
  /\ UNCHANGED <<appVars, envVars, loadingVars, scaleVars, slideVars, isCookMode, keyListener,
                 keysHandled, videoUrl, isGeneratingVideo, videoError, vcalls, currentServings>>

\* the Previous button, disabled when the step shown is the first one
CookPrevious ==
  /\ Mounted(loading, recipe)
  /\ keyListener.on /\ keyListener.step # 0
  /\ activeStep' = previousStep(activeStep)
  /\ lastSettled' = NoSettle
  /\ UNCHANGED <<appVars, envVars, loadingVars, scaleVars, slideVars, isCookMode, keyListener,
                 keysHandled, videoUrl, isGeneratingVideo, videoError, vcalls, currentServings>>

\* the close button of the overlay and Finish Cooking: setIsCookMode(false)
ExitCookMode ==
  /\ Mounted(loading, recipe)
  /\ keyListener.on /\ isCookMode
  /\ isCookMode' = FALSE
  /\ lastSettled' = NoSettle
  /\ UNCHANGED <<appVars, envVars, loadingVars, scaleVars, slideVars, activeStep, keyListener,
                 keysHandled, videoUrl, isGeneratingVideo, videoError, vcalls, currentServings>>

\* ------------------------------------------------- RecipeResult: slideshow

\* const totalSlides = 1 + recipe.instructions.length + 1
totalSlides(r) == 1 + r.instructions + 1

slideDurationNeverNull(slide, total) == IF slide = 0 THEN 4000 ELSE 6000

\* const duration = currentSlide === 0 ? 4000 : currentSlide === totalSlides - 1 ? null : 6000
slideDuration(slide, total) ==
  IF slide = 0 THEN 4000 ELSE IF slide = total - 1 THEN NoTimer ELSE 6000

\* the slideshow effect: the timer pending once it has run
slideshowEffect(playing, slide, r) ==
  IF ~playing THEN NoTimer ELSE slideDuration(slide, totalSlides(r))

\* the updater of the timer callback
advanceSlide(prev, total) == IF prev < total - 1 THEN prev + 1 ELSE prev

\* startSlideshow, the Play Slideshow button of the video error overlay
StartSlideshow ==
  /\ Mounted(loading, recipe)
  /\ videoError # NoVideoError
  /\ ~isPlayingSlideshow
  /\ videoError' = NoVideoError
  /\ isPlayingSlideshow' = TRUE
  /\ currentSlide' = 0
  /\ slideTimer' = slideshowEffect(TRUE, 0, recipe)
  /\ lastSettled' = NoSettle
  /\ UNCHANGED <<appVars, envVars, loadingVars, scaleVars, cookVars,
                 videoUrl, isGeneratingVideo, vcalls, currentServings>>

\* the timer of the slideshow effect fires; the effect runs again when
\* currentSlide has changed
SlideTimerFires ==
  /\ slideTimer # NoTimer
  /\ currentSlide' = advanceSlide(currentSlide, totalSlides(recipe))
  /\ slideTimer' = IF currentSlide' = currentSlide THEN NoTimer
                   ELSE slideshowEffect(isPlayingSlideshow, currentSlide', recipe)
  /\ lastSettled' = NoSettle
  /\ UNCHANGED <<appVars, envVars, loadingVars, scaleVars, cookVars, isPlayingSlideshow,
                 videoUrl, isGeneratingVideo, videoError, vcalls, currentServings>>

\* the close button and Back to Recipe: setIsPlayingSlideshow(false); the
\* cleanup of the effect clears the timer
CloseSlideshow ==
  /\ Mounted(loading, recipe)
  /\ isPlayingSlideshow
  /\ isPlayingSlideshow' = FALSE
  /\ slideTimer' = slideshowEffect(FALSE, currentSlide, recipe)
  /\ lastSettled' = NoSettle
  /\ UNCHANGED <<appVars, envVars, loadingVars, scaleVars, cookVars, currentSlide,
                 videoUrl, isGeneratingVideo, videoError, vcalls, currentServings>>

\* The App component: generation, dish image, favorites, navigation.
Next ==
  \/ HandleGenerate
  \/ GenerateRecipeSettles
  \/ DishImageSettles
  \/ Reset
  \/ HandleToggleFavorite
  \/ HandleRateRecipe
  \/ NavigateToHome
  \/ NavigateToFavorites
  \/ SelectFavorite
  \/ RemoveFavorite
  \/ Reload

Spec == Init /\ [][Next]_vars

\* The RecipeResult view with its video generation, under the App operations
\* that show and hide it.  DishImageSettles and the favorites operations are
\* left to Spec: they write recipeImage, isImageLoading, imgCalls and
\* favorites only, which no action below reads.
NextVideo ==
  \/ HandleGenerate
  \/ GenerateRecipeSettles
  \/ Reset
  \/ NavigateToHome
  \/ NavigateToFavorites
  \/ HandleGenerateVideo
  \/ KeyDialogSettles
  \/ GenerateVideosSettles
  \/ PollTimerFires
  \/ GetVideosOperationSettles
  \/ ReauthDialogSettles
  \/ CloseVideo
  \/ DismissVideoError

SpecVideo == Init /\ [][NextVideo]_vars

\* The RecipeResult view with its serving control, under the App operations
\* that show and hide it and the favorites operations.
NextServings ==
  \/ HandleGenerate
  \/ GenerateRecipeSettles
  \/ Reset
  \/ HandleToggleFavorite
  \/ NavigateToFavorites
  \/ SelectFavorite
  \/ UpdateServings

SpecServings == Init /\ [][NextServings]_vars

\* The loading screen: handleGenerate with its loading-message interval, and
\* the operations that start from the screens it ends in.
NextLoading ==
  \/ HandleGenerate
  \/ LoadingMessageTick
  \/ GenerateRecipeSettles
  \/ Reset
  \/ NavigateToFavorites
  \/ NavigateToHome
  \/ Reload

SpecLoading == Init /\ [][NextLoading]_vars

\* A video request from the click to its outcome, under the App operations
\* that show and hide the view.
NextVideoRun ==
  \/ HandleGenerate
  \/ GenerateRecipeSettles
  \/ Reset
  \/ HandleGenerateVideo
  \/ KeyDialogSettles
  \/ GenerateVideosSettles
  \/ PollTimerFires
  \/ GetVideosOperationSettles
  \/ ReauthDialogSettles

\* every pending promise of a request settles and its 5 s timer fires: the key
\* dialogs are closed, generateVideos and getVideosOperation answer or raise
SpecVideoRun ==
  /\ Init /\ [][NextVideoRun]_vars
  /\ WF_vars(KeyDialogSettles)
  /\ WF_vars(GenerateVideosSettles)
  /\ WF_vars(PollTimerFires)
  /\ WF_vars(GetVideosOperationSettles)
  /\ WF_vars(ReauthDialogSettles)

\* Cook mode of the RecipeResult view, under the App operations that show and
\* hide the view.
NextCook ==
  \/ HandleGenerate
  \/ GenerateRecipeSettles
  \/ Reset
  \/ EnterCookMode
  \/ KeyboardEffect
  \/ KeyDown
  \/ CookNext
  \/ CookPrevious
  \/ ExitCookMode

SpecCook == Init /\ [][NextCook]_vars

\* The slideshow of the RecipeResult view, with the video failures that offer it.
NextSlides ==
  \/ HandleGenerate
  \/ GenerateRecipeSettles
  \/ Reset
  \/ HandleGenerateVideo
  \/ KeyDialogSettles
  \/ GenerateVideosSettles
  \/ ReauthDialogSettles
  \/ DismissVideoError
  \/ StartSlideshow
  \/ SlideTimerFires
  \/ CloseSlideshow

SpecSlides == Init /\ [][NextSlides]_vars

\* the timer of a playing slideshow fires once its duration has passed
SpecSlidesFair == SpecSlides /\ WF_vars(SlideTimerFires)

\* formatIngredientText: scaledQty = getScaledQuantity(ing.quantity, baseServings, currentServings)
FormatIngredientText ==
  /\ scaledQty = NotScaled
  /\ scaledQty' \in getScaledQuantity(ingQuantity, ingBase, ingTarget)
  /\ UNCHANGED <<appVars, envVars, viewVars, loadingVars, resultVars, ingQuantity, ingBase, ingTarget>>

NextScale == FormatIngredientText

\* getScaledQuantity on every quantity string and every pair of serving counts
SpecScale == InitScale /\ [][NextScale]_vars

\* ------------------------------------------------------------------ claims

Calls == 1..Len(vcalls)

\* C1: at most one video-generation request (generateVideos issued, result not
\* yet returned or thrown) is in flight for the displayed recipe at any time.
C1_AtMostOneVideoRequestInFlight ==
  \A j, k \in Calls :
    (/\ Mounted(loading, recipe)
     /\ InFlight(vcalls[j]) /\ vcalls[j].live /\ vcalls[j].gen = recipe.gen
     /\ InFlight(vcalls[k]) /\ vcalls[k].live /\ vcalls[k].gen = recipe.gen) => j = k

TextFailureStep == genPc = "text" /\ genPc' = "idle" /\ error' # NoError

\* C2: when the recipe text call fails, handleGenerate ends with recipe null,
\* recipeImage null, loading and isImageLoading false, error non-null, and no
\* generateDishImage call for that request.
C2_TextFailureLeavesNoPartialState ==
  [][TextFailureStep =>
       /\ recipe' = NoRecipe
       /\ recipeImage' = NoImage
       /\ ~loading'
       /\ ~isImageLoading'
       /\ error' # NoError
       /\ imgCalls'[curGen] = "none"]_vars

ImageFailureStep(g) == imgCalls[g] = "pending" /\ imgCalls'[g] \in {"null", "rejected"}

\* C3: an image call that fails or comes back empty resolves to null (it never
\* rejects); the step that settles it leaves recipe and error as they were and
\* leaves recipeImage null, so the recipe generated by the same generation, when
\* it is the one on display, is still displayed with error null.
C3_ImageFailureKeepsRecipe ==
  [][\A g \in 1..MaxGen :
       ImageFailureStep(g) =>
         /\ imgCalls'[g] = "null"
         /\ recipe' = recipe
         /\ error' = error
         /\ recipeImage' = NoImage
         /\ (recipe.gen = g /\ recipe.id = NoId) =>
               (Mounted(loading', recipe') /\ error' = NoError)]_vars

C3_Witness ==
  \E g \in 1..MaxGen :
    /\ imgCalls[g] = "null" /\ recipe.gen = g /\ recipe.id = NoId
    /\ Mounted(loading, recipe) /\ recipeImage = NoImage /\ error = NoError
    /\ ~isImageLoading

\* C4: isImageLoading is true from the start of handleGenerate until the image
\* call of that generation settles, and false once it has settled.
C4_ImageLoadingUntilImageSettles ==
  /\ (genPc = "text" \/ (curGen >= 1 /\ imgCalls[curGen] = "pending")) => isImageLoading
  /\ (genPc = "idle" /\ curGen >= 1 /\ imgCalls[curGen] \in {"image", "null", "rejected"})
        => ~isImageLoading

\* the recipe of generation g is on display
Displayed(g) == Mounted(loading, recipe) /\ recipe.gen = g

C6_PollLoop ==
  /\ [](/\ \A k \in Calls : vcalls[k].pc \in {"sleeping", "checking"} => ~vcalls[k].opDone
        /\ lastSettled.ret \in {"url", "null"} =>
             /\ \/ lastSettled.checks = 0 /\ lastSettled.falses = 0
                \/ lastSettled.checks = lastSettled.falses + 1
             /\ lastSettled.falses = 2 => lastSettled.checks = 3
             /\ lastSettled.ret = "url" => lastSettled.ref = lastSettled.checks + 1)
  /\ [][\A k \in Calls :
          vcalls'[k].checks = vcalls[k].checks + 1 =>
            (vcalls[k].pc = "sleeping" /\ vcalls'[k].pc = "checking")]_vars

C6_Witness ==
  /\ lastSettled.ret = "url" /\ lastSettled.falses = 2 /\ lastSettled.checks = 3
  /\ lastSettled.ref = 4

FailedInView == lastSettled.ret = "throw" /\ lastSettled.live

\* C8 as stated: a failure whose message contains "Requested entity was not
\* found" sets the authorization message and opens the key prompt; every other
\* failure sets the generic message and opens no prompt.
C8_AuthFailureAlwaysReprompts ==
  FailedInView =>
    IF includes(lastSettled.err, NotFound)
      THEN videoError.msg = AuthMsg /\ vcalls[lastSettled.call].pc = "reauth"
      ELSE videoError.msg = GenericMsg /\ vcalls[lastSettled.call].pc = "done"

\* C8 amended: as C8, the key prompt being opened (in the same step that sets
\* the message) exactly when window.aistudio is defined.
C8_AuthFailureRepromptsInAiStudio ==
  FailedInView =>
    IF includes(lastSettled.err, NotFound)
      THEN /\ videoError.msg = AuthMsg
           /\ vcalls[lastSettled.call].pc = IF aistudio THEN "reauth" ELSE "done"
      ELSE videoError.msg = GenericMsg /\ vcalls[lastSettled.call].pc = "done"

C8_Witness ==
  /\ FailedInView /\ lastSettled.err = <<"other", NotFound>>
  /\ aistudio /\ vcalls[lastSettled.call].pc = "reauth" /\ videoError.msg = AuthMsg
  /\ isGeneratingVideo

\* C9: two consecutive favorite toggles on a displayed recipe that is not yet a
\* favorite add one entry at the front and then remove it, giving back the list
\* as it was, with never more than one entry of that title.
C9_ToggleTwiceRestores ==
  /\ toggles.count = 1 =>
       /\ Len(favorites) = Len(toggles.base) + 1
       /\ Tail(favorites) = toggles.base
       /\ favorites[1].title = recipe.title
  /\ toggles.count = 2 => favorites = toggles.base
  /\ toggles.count \in {1, 2} => CountTitle(favorites, recipe.title) = 2 - toggles.count

C9_Witness == toggles.count = 2 /\ Len(favorites) >= 1 /\ Mounted(loading, recipe)

\* C10: no two entries of the favorites list have the same title.
C10_NoDuplicateTitles ==
  \A i, j \in 1..Len(favorites) : favorites[i].title = favorites[j].title => i = j

C10_Witness ==
  /\ Mounted(loading, recipe) /\ recipe.id = NoId
  /\ \E i \in 1..Len(favorites) :
       favorites[i].title = recipe.title /\ favorites[i].gen # recipe.gen

\* the list new is the list old with the rating of the entries whose id is id
\* set to rating, and nothing else changed
RatedOnly(old, new, id, rating) ==
  /\ Len(new) = Len(old)
  /\ \A j \in 1..Len(old) :
       IF old[j].id = id
         THEN /\ new[j].rating = rating
              /\ new[j] = [old[j] EXCEPT !.rating = rating]
         ELSE new[j] = old[j]

\* C11: handleRateRecipe(id, rating) sets the rating of the favorites entry
\* whose id is id (there is at most one) and changes nothing else: the other
\* entries, the other fields of that entry, the length and the order stay, and
\* the list is unchanged when no entry has that id.
C11_RateChangesOnlyRating ==
  /\ [](\A id \in 1..(MaxFavIds + 1), rating \in 1..MaxRating :
          LET new == rateFavorites(favorites, id, rating) IN
          /\ RatedOnly(favorites, new, id, rating)
          /\ Cardinality({j \in 1..Len(favorites) : favorites[j].id = id}) <= 1
          /\ (\A j \in 1..Len(favorites) : favorites[j].id # id) => new = favorites)
  /\ [][HandleRateRecipe =>
          /\ Len(favorites') = Len(favorites)
          /\ \E i \in 1..Len(favorites) :
               /\ favorites' = rateFavorites(favorites, favorites[i].id, favorites'[i].rating)
               /\ \A j \in 1..Len(favorites) : j # i => favorites'[j] = favorites[j]
               /\ favorites'[i] = [favorites[i] EXCEPT !.rating = favorites'[i].rating]]_vars

C11_Witness ==
  /\ FavoritesListShown
  /\ \E i, j \in 1..Len(favorites) :
       favorites[i].rating # NoRating /\ favorites[j].rating = NoRating

C13_ServingsAtLeastOne ==
  /\ [](/\ Mounted(loading, recipe) =>
             /\ currentServings >= 1
             /\ \A delta \in {-1, 1} : updateServings(currentServings, delta) >= 1
        /\ updateServings(1, -1) = 1)
  /\ [][(Mounted(loading, recipe) /\ Mounted(loading', recipe')
           /\ currentServings' # currentServings) =>
          /\ currentServings' >= 1
          /\ currentServings' \in {currentServings - 1, currentServings + 1}]_vars

C13_Witness ==
  /\ Mounted(loading, recipe) /\ canScale(recipe)
  /\ currentServings = 1 /\ baseServings(recipe) = 2

\* C14: a change of the serving count changes neither the recipe record nor
\* the favorites list nor the stored entry; the recipe on display and every
\* favorites entry carry the servings value the recipe was generated with, so
\* a recipe favorited after scaling is saved with its base servings.
C14_ScalingIsViewOnly ==
  /\ [](/\ recipe # NoRecipe => recipe.servings = servingsOf(recipe.title)
        /\ \A i \in 1..Len(favorites) : favorites[i].servings = servingsOf(favorites[i].title))
  /\ [][(Mounted(loading, recipe) /\ Mounted(loading', recipe')
           /\ currentServings' # currentServings) =>
          /\ recipe' = recipe
          /\ favorites' = favorites
          /\ storage' = storage]_vars
  /\ [][(Mounted(loading, recipe) /\ Len(favorites') = Len(favorites) + 1) =>
          favorites'[1] = [recipe EXCEPT !.id = favorites'[1].id, !.imageUrl = recipeImage]]_vars

C14_Witness ==
  /\ Mounted(loading, recipe) /\ canScale(recipe)
  /\ currentServings # baseServings(recipe)
  /\ toggles.count = 1
  /\ favorites[1].title = recipe.title /\ favorites[1].servings = baseServings(recipe)

\* ---- reference reading of quantity strings, for the scaling claims

IsDigits(s) == s # <<>> /\ \A i \in 1..Len(s) : isDigit(s[i])

RECURSIVE DigitsValue(_)
DigitsValue(s) ==
  IF s = <<>> THEN 0 ELSE 10 * DigitsValue(SubSeq(s, 1, Len(s) - 1)) + digitValue(s[Len(s)])

Left(s, k) == SubSeq(s, 1, k - 1)
Right(s, k) == SubSeq(s, k + 1, Len(s))

\* digits '.' digits, one of the two digit runs possibly empty
IsDecimal(s) ==
  \E k \in 1..Len(s) :
    /\ s[k] = "."
    /\ IsDigits(Left(s, k) \o Right(s, k))

\* an integer or a decimal
IsNumeral(s) == IsDigits(s) \/ IsDecimal(s)

NumeralValue(s) ==
  IF IsDigits(s) THEN [n |-> DigitsValue(s), d |-> 1]
  ELSE LET k == CHOOSE k \in 1..Len(s) : s[k] = "." IN
       [n |-> DigitsValue(Left(s, k)) * Pow10(Len(Right(s, k))) + DigitsValue(Right(s, k)),
        d |-> Pow10(Len(Right(s, k)))]

\* s is a sep b with a and b numerals
IsPair(s, sep) == \E k \in 1..Len(s) : s[k] = sep /\ IsNumeral(Left(s, k)) /\ IsNumeral(Right(s, k))

\* s has exactly one sep
OneSep(s, sep) == Cardinality({k \in 1..Len(s) : s[k] = sep}) = 1

SepAt(s, sep) == CHOOSE k \in 1..Len(s) : s[k] = sep

\* s, after leading blanks, does not start with a number
Unparsable(s) ==
  LET t == trimStart(s) IN
  ~ \/ (t # <<>> /\ isDigit(t[1]))
    \/ (Len(t) >= 2 /\ t[1] = "." /\ isDigit(t[2]))

Scaled == scaledQty # NotScaled

Ratio == [n |-> ingTarget, d |-> ingBase]

\* C15: getScaledQuantity(q, s, s) returns q for every quantity string q and
\* every serving count s, and an empty quantity gives the empty string for every
\* base and target.
C15_ScalingIdentity ==
  /\ \A s \in ServingCounts : getScaledQuantity(ingQuantity, s, s) = {ingQuantity}
  /\ Scaled =>
       /\ ingBase = ingTarget => scaledQty = ingQuantity
       /\ ingQuantity = <<>> => scaledQty = <<>>

C15_Witness ==
  /\ Scaled /\ ingBase = ingTarget
  /\ ingQuantity = <<"1", "/", "2">> /\ scaledQty = <<"1", "/", "2">>

\* the decimal string of an integer: digits without a leading zero, '-' before
\* them when the integer is negative
IsIntegerString(s) ==
  LET digits == IF s # <<>> /\ s[1] = "-" THEN Tail(s) ELSE s IN
  /\ IsDigits(digits)
  /\ Len(digits) > 1 => digits[1] # "0"
  /\ (s[1] = "-") => digits # <<"0">>

IntegerValue(s) == IF s[1] = "-" THEN - DigitsValue(Tail(s)) ELSE DigitsValue(s)

RECURSIVE DecimalString(_)
DecimalString(n) ==
  IF n < 0 THEN <<"-">> \o DecimalString(-n)
  ELSE IF n < 10 THEN <<DigitChars[n + 1]>>
  ELSE DecimalString(n \div 10) \o <<DigitChars[(n % 10) + 1]>>

\* C16 as stated: for every integer q and base s, target t with t/s an integer,
\* the decimal string of q is scaled to the decimal string of q * t / s.
C16_IntegerScaled ==
  (Scaled /\ IsIntegerString(ingQuantity) /\ ingTarget % ingBase = 0) =>
    scaledQty = DecimalString(IntegerValue(ingQuantity) * (ingTarget \div ingBase))

\* C16 amended: as C16 for every integer q >= 0; the decimal string of a
\* negative integer contains '-', is taken for a range and is returned unchanged.
C16_NonNegativeIntegerScaled ==
  /\ (Scaled /\ IsIntegerString(ingQuantity) /\ IntegerValue(ingQuantity) >= 0
        /\ ingTarget % ingBase = 0) =>
       scaledQty = DecimalString(IntegerValue(ingQuantity) * (ingTarget \div ingBase))
  /\ (Scaled /\ IsIntegerString(ingQuantity) /\ IntegerValue(ingQuantity) < 0) =>
       scaledQty = ingQuantity

C16_Witness ==
  /\ Scaled /\ ingQuantity = <<"1", "2">> /\ ingBase = 2 /\ ingTarget = 8
  /\ scaledQty = <<"4", "8">>

C19_OtherFormsUnchanged ==
  (/\ Scaled
   /\ ingQuantity # <<>>
   /\ ~IsNumeral(ingQuantity)
   /\ ~IsPair(ingQuantity, "/")
   /\ ~IsPair(ingQuantity, "-")) => scaledQty = ingQuantity

\* C20: a fraction whose denominator is 0 or whose numerator or denominator
\* does not parse, and a range one of whose parts does not parse, is returned
\* verbatim (scale("1/0", 2, 4) = "1/0"); every call returns a string.
C20_FailSoft ==
  /\ getScaledQuantity(ingQuantity, ingBase, ingTarget) # {}
  /\ (Scaled /\ ~includes(ingQuantity, "-") /\ OneSep(ingQuantity, "/")) =>
       LET k == SepAt(ingQuantity, "/")
           a == Left(ingQuantity, k)
           b == Right(ingQuantity, k)
       IN (\/ Unparsable(a)
           \/ Unparsable(b)
           \/ (IsNumeral(b) /\ NumeralValue(b).n = 0)) => scaledQty = ingQuantity
  /\ (Scaled /\ OneSep(ingQuantity, "-")) =>
       LET k == SepAt(ingQuantity, "-")
       IN (Unparsable(Left(ingQuantity, k)) \/ Unparsable(Right(ingQuantity, k))) =>
            scaledQty = ingQuantity
  /\ getScaledQuantity(<<"1", "/", "0">>, 2, 4) = {<<"1", "/", "0">>}

C20_Witness ==
  /\ Scaled /\ ingQuantity = <<"1", "/", "0">> /\ ingBase = 2 /\ ingTarget = 4
  /\ scaledQty = <<"1", "/", "0">>

\* C21: every recipe a successful generation returns (the displayed recipe that
\* is not a favorite) has at least one ingredient, at least one instruction and
\* the four numeric macro fields.
C21_GeneratedRecipeComplete ==
  (recipe # NoRecipe /\ recipe.id = NoId) =>
    /\ recipe.ingredients >= 1
    /\ recipe.instructions >= 1
    /\ recipe.macros = MacroFields

\* the image call of generation g settles in this step
ImageSettleStep(g) == imgCalls[g] = "pending" /\ imgCalls'[g] # "pending"

\* C25: the image on display was produced by the generation that produced the
\* displayed recipe, or is the imageUrl of the selected favorite; the image call
\* of an earlier generation never becomes the image of a later displayed recipe
\* and never clears its loading flag.
C25_ImageBelongsToDisplayedRecipe ==
  /\ []((Mounted(loading, recipe) /\ recipeImage # NoImage) =>
          \/ recipeImage = recipe.gen
          \/ (recipe.id # NoId /\ recipeImage = recipe.imageUrl))
  /\ [][\A g \in 1..MaxGen :
          (ImageSettleStep(g) /\ g < curGen) =>
            (recipeImage' = recipeImage /\ isImageLoading' = isImageLoading)]_vars

\* handleToggleFavorite adds an entry in this step
AddFavoriteStep == nextId' = nextId + 1 /\ Len(favorites') = Len(favorites) + 1

\* C28: the entry handleToggleFavorite creates stores recipeImage as it is at
\* the toggle, which is null when the image call of the displayed recipe has
\* not settled yet; a later image completion changes no favorites entry.
C28_FavoriteStoresImageAtToggle ==
  /\ [][AddFavoriteStep =>
          /\ favorites'[1].imageUrl = recipeImage
          /\ (imgCalls[recipe.gen] = "pending" => favorites'[1].imageUrl = NoImage)]_vars
  /\ [][(\E g \in 1..MaxGen : ImageSettleStep(g)) => favorites' = favorites]_vars

\* invocation k of handleGenerateVideo calls generateVideos in this step
VideoRequestIssued(k) ==
  /\ k \in 1..Len(vcalls')
  /\ vcalls'[k].pc = "requesting"
  /\ (k > Len(vcalls) \/ vcalls[k].pc # "requesting")

\* C22: the image request of a generation is issued only by the step in which
\* its text call returns successfully and sets the recipe, and never a second
\* time; a video request is issued only while a recipe is displayed.
C22_TextCallGatesAssetCalls ==
  /\ [][\A g \in 1..MaxGen :
          /\ (imgCalls[g] = "none" /\ imgCalls'[g] # "none") =>
               /\ genPc = "text" /\ g = curGen
               /\ recipe' # NoRecipe /\ recipe'.gen = g
               /\ imgCalls'[g] = "pending"
          /\ imgCalls[g] # "none" => imgCalls'[g] # "none"
          /\ imgCalls[g] \notin {"none", "pending"} => imgCalls'[g] = imgCalls[g]]_vars
  /\ [][\A k \in 1..MaxVideoCalls :
          VideoRequestIssued(k) => Mounted(loading, recipe)]_vars

\* C26: at most one video outcome is shown: videoUrl and videoError are never
\* both non-null, and neither is non-null while isGeneratingVideo is true.
C26_AtMostOneVideoOutcome ==
  /\ ~(videoUrl # NoVideo /\ videoError # NoVideoError)
  /\ isGeneratingVideo => (videoUrl = NoVideo /\ videoError = NoVideoError)

\* ---- the three-rule reference for formatNumber, on exact fractions n/d

\* the reference values, in hundredths, and their glyphs
RefGlyphs == {<<25, "<1/4>">>, <<33, "<1/3>">>, <<50, "<1/2>">>, <<66, "<2/3>">>, <<75, "<3/4>">>}

RefWhole(x) == x.n \div x.d

\* frac = RefFracNum(x) / x.d
RefFracNum(x) == x.n - RefWhole(x) * x.d

\* the distance of frac from a reference value, times 100 * x.d
RefDistance(x, g) ==
  LET diff == 100 * RefFracNum(x) - g[1] * x.d IN IF diff >= 0 THEN diff ELSE -diff

\* rule 2: the glyph, after the whole part and a space when the whole part is positive
RefGlyphText(x, g) ==
  IF RefWhole(x) > 0 THEN DecimalString(RefWhole(x)) \o <<" ", g[2]>> ELSE <<g[2]>>

\* t tenths with a trailing ".0" stripped
RefTenthsText(t) ==
  IF t % 10 = 0 THEN DecimalString(t \div 10)
  ELSE DecimalString(t \div 10) \o <<".">> \o DecimalString(t % 10)

\* rule 3: the value rounded to one decimal place; a value half way between
\* two tenths is no binary floating-point number, so both neighbours count
RefRounded(x) ==
  LET below == (10 * x.n) \div x.d
      twice == 2 * ((10 * x.n) - below * x.d)
  IN (IF twice <= x.d THEN {RefTenthsText(below)} ELSE {})
     \cup (IF twice >= x.d THEN {RefTenthsText(below + 1)} ELSE {})

\* the strings the three rules allow for x; at a value exactly on a threshold
\* (frac = 0.01, or frac at distance 0.05 from a reference value) the rules on
\* both sides of the threshold are allowed
RefFormat(x) ==
  LET within == {g \in RefGlyphs : RefDistance(x, g) < 5 * x.d}
      onEdge == {g \in RefGlyphs : RefDistance(x, g) = 5 * x.d}
  IN IF 100 * RefFracNum(x) < x.d THEN {DecimalString(RefWhole(x))}
     ELSE (IF 100 * RefFracNum(x) = x.d THEN {DecimalString(RefWhole(x))} ELSE {})
          \cup {RefGlyphText(x, g) : g \in within \cup onEdge}
          \cup (IF within = {} THEN RefRounded(x) ELSE {})

\* C24: formatNumber agrees with the three-rule reference on every finite
\* non-negative value: the text shown for a numeral or a fraction a/b scaled
\* from base to target servings is one the three rules allow for its value.
C24_FormatNumberThreeRules ==
  /\ (Scaled /\ ingBase # ingTarget /\ IsNumeral(ingQuantity)) =>
       scaledQty \in RefFormat(mul(NumeralValue(ingQuantity), Ratio))
  /\ (Scaled /\ ingBase # ingTarget /\ IsPair(ingQuantity, "/")) =>
       LET k == SepAt(ingQuantity, "/")
           a == NumeralValue(Left(ingQuantity, k))
           b == NumeralValue(Right(ingQuantity, k))
       IN b.n # 0 => scaledQty \in RefFormat(mul(div(a, b), Ratio))
  /\ formatNumber([n |-> 3, d |-> 2]) = {<<"1", " ", "<1/2>">>}
  /\ formatNumber([n |-> 21, d |-> 10]) = {<<"2", ".", "1">>}

\* 1 for 2 servings shown for 3: 1.5, the glyph after the whole part
C24_Witness ==
  /\ Scaled /\ ingQuantity = <<"1">> /\ ingBase = 2 /\ ingTarget = 3
  /\ scaledQty = <<"1", " ", "<1/2>">>

\* the recipe text call of the current generation settles in this step
TextSettleStep == genPc = "text" /\ genPc' = "idle"

\* C30: loading is true exactly while the recipe text call of a handleGenerate
\* is pending; the step in which that call settles, with a recipe or with an
\* error, leaves loading false and the generation's loading-message timer
\* cleared; no such timer is active while loading is false.
C30_LoadingAndItsTimer ==
  /\ [](/\ loading <=> genPc = "text"
        /\ loading => intervals = {curGen}
        /\ ~loading => intervals = {})
  /\ [][TextSettleStep => (~loading' /\ curGen \notin intervals')]_vars

\* a failed generation during which the message advanced: loading is off and
\* no timer is left
C30_Witness ==
  /\ curGen = 1 /\ genPc = "idle" /\ error # NoError
  /\ ~loading /\ intervals = {}
  /\ loadingMessage = LOADING_MESSAGES[3]

\* C27: in cook mode the active step index stays within
\* 0 .. instructions.length - 1, whatever Next/Previous clicks and
\* ArrowRight/ArrowLeft presses are handled, several presses between two
\* renders of the view included.
C27_ActiveStepInRange ==
  (Mounted(loading, recipe) /\ isCookMode) =>
    (0 <= activeStep /\ activeStep <= recipe.instructions - 1)

\* the slideshow is on its final slide
OnFinalSlide == currentSlide = recipe.instructions + 1

\* C29: while the slideshow plays the slide index is within
\* 0 .. instructions.length + 1 and moves only forward, one slide at a time;
\* unless the slideshow is closed it reaches the final slide, and there it stays
\* with no timer pending.
C29_SlideshowAdvancesToTheEnd ==
  /\ [](isPlayingSlideshow =>
          /\ 0 <= currentSlide /\ currentSlide <= recipe.instructions + 1
          /\ OnFinalSlide => slideTimer = NoTimer)
  /\ [][(isPlayingSlideshow /\ isPlayingSlideshow') =>
          /\ currentSlide' \in {currentSlide, currentSlide + 1}
          /\ OnFinalSlide => currentSlide' = currentSlide]_vars
  /\ (isPlayingSlideshow ~> (~isPlayingSlideshow \/ (OnFinalSlide /\ slideTimer = NoTimer)))

\* the slideshow of a two-step recipe on its end slide, the fourth
C29_Witness ==
  /\ isPlayingSlideshow /\ recipe.instructions = 2
  /\ currentSlide = 3 /\ slideTimer = NoTimer

\* the positions of a handleGenerateVideo invocation, as states of the machine
\* Idle -> Requesting -> Polling -> terminal
Requesting(c) == c.pc \in {"keydialog", "requesting"}
Polling(c) == c.pc \in {"sleeping", "checking"}
Terminal(c) == c.pc \in {"reauth", "done"}

\* invocation k reaches its outcome in this step
OutcomeStep(k) == ~Terminal(vcalls[k]) /\ Terminal(vcalls'[k])

\* some invocation has not run to its end, or the in-progress flag is on; an
\* invocation that has run to its end stays so, hence VideoBusy ~> ~VideoBusy
\* says that every started request ends
VideoBusy == (\E k \in Calls : vcalls[k].pc # "done") \/ isGeneratingVideo

====
